---- MODULE Spec2Model ----
(***************************************************************************)
(* Model of src/main.py: the hierarchical categorization store              *)
(* (presentations -> questions -> categories -> answers), its schema        *)
(* migration at load time, and the categorize / add_question handlers.      *)
(*                                                                         *)
(* Strings that the code strips are sequences of pieces: the piece " " is  *)
(* one whitespace character, any other piece is a run of non-blank text.   *)
(* A JSON object (a Python dict) is a function on a finite set of keys.    *)
(***************************************************************************)
EXTENDS Integers, Sequences, FiniteSets, TLC

VARIABLES
    data_store,       \* main.py:137  the in-memory ledger
    data_file,        \* main.py:21   what DATA_FILE holds on disk
    questions_store,  \* main.py:138  the in-memory Question Index
    questions_file,   \* main.py:22   what QUESTIONS_FILE holds on disk
    sessions,         \* main.py:29   session ids of logged-in admins
    GEMINI_API_KEY,   \* main.py:19   TRUE when the key is a non-empty string
    response,         \* the response to the request handled last
    gemini_calls,     \* main.py:182 requests posted to the classifier so far
    handled,          \* requests handled so far
    tasks,            \* event loop: each /categorize coroutine, its inputs, locals and position
    running,          \* event loop: the coroutine that holds the loop, or NoTask
    doc,              \* migration harness: the file handed to load_data
    loaded,           \* migration harness: what load_data returned for doc
    passes            \* migration harness: how many times load_data has run

vars == <<data_store, data_file, questions_store, questions_file, sessions,
          GEMINI_API_KEY, response, gemini_calls, handled, tasks, running,
          doc, loaded, passes>>

serverVars == <<data_store, data_file, questions_store, questions_file, sessions,
                GEMINI_API_KEY, response, gemini_calls, handled>>

migVars == <<doc, loaded, passes>>

loopVars == <<tasks, running>>

----------------------------------------------------------------------------
(* Bounds *)

MaxRequests == 2     \* requests the server handles per behaviour
MaxPasses == 2       \* runs of load_data in the migration harness
MaxTasks == 2        \* /categorize coroutines on the event loop at once

----------------------------------------------------------------------------
(* Strings *)

WS == " "

General == <<"General">>

\* str.strip(): drop the leading and the trailing whitespace
RECURSIVE LStrip(_)
LStrip(s) == IF s # <<>> /\ Head(s) = WS THEN LStrip(Tail(s)) ELSE s

RECURSIVE RStrip(_)
RStrip(s) == IF s # <<>> /\ s[Len(s)] = WS THEN RStrip(SubSeq(s, 1, Len(s) - 1)) ELSE s

Strip(s) == RStrip(LStrip(s))

\* the category names, answers and question texts the inputs are built from
CatA == <<"A">>
CatB == <<"B">>
AnsX == <<"x">>
AnsY == <<"y">>
Q1 == <<"Q1">>

----------------------------------------------------------------------------
(* Python dicts *)

EmptyDict == <<>>

\* d[k] = v
Put(d, k, v) == [x \in (DOMAIN d) \cup {k} |-> IF x = k THEN v ELSE d[x]]

\* d.get(k, default)
Get(d, k, default) == IF k \in DOMAIN d THEN d[k] ELSE default

\* the dict after d.setdefault(k, default)
SetDefault(d, k, default) == IF k \in DOMAIN d THEN d ELSE Put(d, k, default)

\* del d[k]
Del(d, k) == [x \in (DOMAIN d) \ {k} |-> d[x]]

----------------------------------------------------------------------------
(* Files *)

AbsentFile == [kind |-> "absent", json |-> EmptyDict]
CorruptFile == [kind |-> "corrupt", json |-> EmptyDict]

\* json.dump(data, f): the file now holds the document
JsonFile(data) == [kind |-> "json", json |-> data]

EmptyLedger == [presentations |-> [default |-> [categories_by_question |-> EmptyDict]]]

\* JSON null, the one non-object value the model gives a "categories" key
JsonNull == (<<"#null">> :> <<>>)

\* isinstance(v, dict)
IsDict(v) == v # JsonNull

\* a migration that wraps the document without looking for "presentations"
LegacyTop_Unconditional(data) ==
    [presentations |-> [default |-> [categories_by_question |->
        (General :> Get(data, "categories", EmptyDict))]]]

\* load_data(), lines 84-87: the top-level legacy shape
LegacyTop(data) ==
    IF "presentations" \notin DOMAIN data
    THEN [presentations |-> [default |-> [categories_by_question |->
              (General :> Get(data, "categories", EmptyDict))]]]
    ELSE data

\* required keys assigned instead of set by default
EnsureKeys_Overwrite(data) ==
    LET d1 == SetDefault(data, "presentations", EmptyDict)
        ps == SetDefault(d1["presentations"], "default", [categories_by_question |-> EmptyDict])
        dp == Put(ps["default"], "categories_by_question", EmptyDict)
    IN  Put(d1, "presentations", Put(ps, "default", dp))

\* load_data(), lines 89-92: the required keys
EnsureKeys(data) ==
    LET d1 == SetDefault(data, "presentations", EmptyDict)
        ps == SetDefault(d1["presentations"], "default", [categories_by_question |-> EmptyDict])
        dp == SetDefault(ps["default"], "categories_by_question", EmptyDict)
    IN  Put(d1, "presentations", Put(ps, "default", dp))

\* a move that overwrites an existing "General" entry
MoveDefaultCategories_LastWins(data) ==
    LET default_p == data["presentations"]["default"]
    IN  IF "categories" \in DOMAIN default_p /\ IsDict(default_p["categories"])
        THEN LET existing == default_p["categories"]
                 cbq0 == Get(default_p, "categories_by_question", EmptyDict)
                 dp == Del(Put(default_p, "categories_by_question", Put(cbq0, General, existing)),
                           "categories")
             IN  Put(data, "presentations", Put(data["presentations"], "default", dp))
        ELSE data

\* load_data(), lines 94-101: presentations.default.categories -> categories_by_question.General
MoveDefaultCategories(data) ==
    LET default_p == data["presentations"]["default"]
    IN  IF "categories" \in DOMAIN default_p /\ IsDict(default_p["categories"])
        THEN LET existing == default_p["categories"]
                 cbq0 == Get(default_p, "categories_by_question", EmptyDict)
                 cbq == IF General \notin DOMAIN cbq0 THEN Put(cbq0, General, existing) ELSE cbq0
                 dp == Del(Put(default_p, "categories_by_question", cbq), "categories")
             IN  Put(data, "presentations", Put(data["presentations"], "default", dp))
        ELSE data

load_data(f) ==
    IF f.kind # "json" THEN EmptyLedger
    ELSE MoveDefaultCategories(EnsureKeys(LegacyTop(f.json)))

----------------------------------------------------------------------------
(* The Question Index: load_questions and save_questions *)

\* a JSON array in QUESTIONS_FILE (the older shape)
ListFile(questions) == [kind |-> "list", json |-> questions]

load_questions(f) ==
    CASE f.kind = "list" -> [default |-> f.json]
      [] f.kind = "json" -> SetDefault(f.json, "default", <<>>)
      [] OTHER -> [default |-> <<>>]

----------------------------------------------------------------------------
(* GET /categories *)

get_categories(store, p, question) ==
    LET presentation == Get(Get(store, "presentations", EmptyDict), p, EmptyDict)
    IN  Get(Get(presentation, "categories_by_question", EmptyDict), question, EmptyDict)

----------------------------------------------------------------------------
(* POST /categorize *)

\* line 261: (input_data.question or "General").strip() or "General";
\* None and the empty string are both <<>> and take the same branch
question_text(question) ==
    LET given == IF question = <<>> THEN General ELSE question
    IN  IF Strip(given) = <<>> THEN General ELSE Strip(given)

\* the ledger with the mapping of scope (p, q) replaced
WithScope(store, p, q, categories_data) ==
    LET presentations == store["presentations"]
        presentation == presentations[p]
        cbq == presentation["categories_by_question"]
    IN  Put(store, "presentations",
            Put(presentations, p,
                Put(presentation, "categories_by_question", Put(cbq, q, categories_data))))

\* a resolution that assigns the presentation's container instead of defaulting it
ResolveScope_Reset(store, p, q) ==
    LET s1 == SetDefault(store, "presentations", EmptyDict)
        presentations == SetDefault(s1["presentations"], p, [categories_by_question |-> EmptyDict])
        presentation == Put(presentations[p], "categories_by_question", EmptyDict)
        cbq == SetDefault(presentation["categories_by_question"], q, EmptyDict)
    IN  Put(s1, "presentations",
            Put(presentations, p, Put(presentation, "categories_by_question", cbq)))

\* lines 257-262: the setdefault calls that resolve the scope, creating it if absent
ResolveScope(store, p, q) ==
    LET s1 == SetDefault(store, "presentations", EmptyDict)
        presentations == SetDefault(s1["presentations"], p, [categories_by_question |-> EmptyDict])
        presentation == SetDefault(presentations[p], "categories_by_question", EmptyDict)
        cbq == SetDefault(presentation["categories_by_question"], q, EmptyDict)
    IN  Put(s1, "presentations",
            Put(presentations, p, Put(presentation, "categories_by_question", cbq)))

\* a reconciliation that trusts the classifier's hint for the novelty flag
Reconcile_TrustHint(store, p, q, category, hint, user_answer) ==
    LET categories_data == store["presentations"][p]["categories_by_question"][q]
        answers == IF category \notin DOMAIN categories_data THEN <<>> ELSE categories_data[category]
    IN  [store |-> WithScope(store, p, q, Put(categories_data, category, Append(answers, user_answer))),
         is_new |-> hint]

\* a reconciliation that puts the new answer in front of the category's list
Reconcile_Prepend(store, p, q, category, hint, user_answer) ==
    LET categories_data == store["presentations"][p]["categories_by_question"][q]
        absent == category \notin DOMAIN categories_data
        answers == IF absent THEN <<>> ELSE categories_data[category]
    IN  [store |-> WithScope(store, p, q, Put(categories_data, category, <<user_answer>> \o answers)),
         is_new |-> IF absent THEN TRUE ELSE hint]

\* lines 268-274: the existence check on the category key, then the append
Reconcile(store, p, q, category, hint, user_answer) ==
    LET categories_data == store["presentations"][p]["categories_by_question"][q]
        absent == category \notin DOMAIN categories_data
        answers == IF absent THEN <<>> ELSE categories_data[category]
    IN  [store |-> WithScope(store, p, q, Put(categories_data, category, Append(answers, user_answer))),
         is_new |-> IF absent THEN TRUE ELSE hint]

Presentations == {"default", "p1"}
QuestionInputs == {<<>>, <<WS>>, <<"Q1", WS>>}
AnswerInputs == {<<>>, <<WS>>, AnsX, <<WS, "y", WS>>}
CategoryNames == {CatA, <<WS, "B", WS>>}
Failures == {"Error communicating with Gemini API.",
             "Could not parse structured response from AI."}

\* lines 249-250
CategorizeNoKey(p, question, answer) ==
    /\ handled < MaxRequests
    /\ ~GEMINI_API_KEY
    /\ response' = [status |-> 500, detail |-> "GEMINI_API_KEY is not set."]
    /\ handled' = handled + 1
    /\ UNCHANGED <<data_store, data_file, questions_store, questions_file, sessions,
                   GEMINI_API_KEY, gemini_calls, migVars, loopVars>>

\* a handler that resolves the scope before it validates the answer
CategorizeEmpty_ResolveFirst(p, question, answer) ==
    /\ handled < MaxRequests
    /\ GEMINI_API_KEY
    /\ Strip(answer) = <<>>
    /\ data_store' = ResolveScope(data_store, p, question_text(question))
    /\ response' = [status |-> 400, detail |-> "Answer cannot be empty."]
    /\ handled' = handled + 1
    /\ UNCHANGED <<data_file, questions_store, questions_file, sessions,
                   GEMINI_API_KEY, gemini_calls, migVars, loopVars>>

\* lines 252-254
CategorizeEmpty(p, question, answer) ==
    /\ handled < MaxRequests
    /\ GEMINI_API_KEY
    /\ Strip(answer) = <<>>
    /\ response' = [status |-> 400, detail |-> "Answer cannot be empty."]
    /\ handled' = handled + 1
    /\ UNCHANGED <<data_store, data_file, questions_store, questions_file, sessions,
                   GEMINI_API_KEY, gemini_calls, migVars, loopVars>>

\* lines 252-265 with call_gemini_for_categorization raising (lines 194-200)
CategorizeClassifierFails(p, question, answer, failure) ==
    /\ handled < MaxRequests
    /\ GEMINI_API_KEY
    /\ Strip(answer) # <<>>
    /\ data_store' = ResolveScope(data_store, p, question_text(question))
    /\ gemini_calls' = gemini_calls + 1
    /\ response' = [status |-> 500, detail |-> failure]
    /\ handled' = handled + 1
    /\ UNCHANGED <<data_file, questions_store, questions_file, sessions,
                   GEMINI_API_KEY, migVars, loopVars>>

\* lines 252-282 with the classifier returning (category_name, is_new)
CategorizeOK(p, question, answer, category_name, is_new) ==
    LET q == question_text(question)
        r == Reconcile(ResolveScope(data_store, p, q), p, q,
                       Strip(category_name), is_new, Strip(answer))
    IN  /\ handled < MaxRequests
        /\ GEMINI_API_KEY
        /\ Strip(answer) # <<>>
        /\ data_store' = r.store
        /\ data_file' = JsonFile(r.store)
        /\ response' = [status |-> 200,
                        message |-> <<"Answer successfully categorized under:",
                                      Strip(category_name)>>,
                        category |-> Strip(category_name),
                        is_new |-> r.is_new,
                        all_categories |-> r.store["presentations"][p]["categories_by_question"][q]]
        /\ gemini_calls' = gemini_calls + 1
        /\ handled' = handled + 1
        /\ UNCHANGED <<questions_store, questions_file, sessions, GEMINI_API_KEY, migVars, loopVars>>

\* the handler on one request, whatever the classifier does with it
Categorize(p, question, answer) ==
    \/ CategorizeNoKey(p, question, answer)
    \/ CategorizeEmpty(p, question, answer)
    \/ \E failure \in Failures : CategorizeClassifierFails(p, question, answer, failure)
    \/ \E category_name \in CategoryNames, is_new \in BOOLEAN :
          CategorizeOK(p, question, answer, category_name, is_new)

categorize_answer ==
    \E p \in Presentations, question \in QuestionInputs, answer \in AnswerInputs :
        Categorize(p, question, answer)

----------------------------------------------------------------------------
(* The admin section *)

SessionIds == {"s1"}
Cookies == SessionIds \cup {"none"}
QuestionTexts == {Q1, <<"Q2", WS>>}

\* lines 290-305; session_id stands for what secrets.token_urlsafe returns
login(password_ok, session_id) ==
    /\ handled < MaxRequests
    /\ handled' = handled + 1
    /\ IF password_ok
       THEN /\ sessions' = sessions \cup {session_id}
            /\ response' = [status |-> 303, location |-> "/admin"]
       ELSE /\ sessions' = sessions
            /\ response' = [status |-> 303, location |-> "/login"]
    /\ UNCHANGED <<data_store, data_file, questions_store, questions_file,
                   GEMINI_API_KEY, gemini_calls, migVars, loopVars>>

\* lines 348-355
logout(cookie) ==
    /\ handled < MaxRequests
    /\ handled' = handled + 1
    /\ sessions' = sessions \ {cookie}
    /\ response' = [status |-> 303, location |-> "/login"]
    /\ UNCHANGED <<data_store, data_file, questions_store, questions_file,
                   GEMINI_API_KEY, gemini_calls, migVars, loopVars>>

\* lines 321-323
AddQuestionRefused(cookie) ==
    /\ handled < MaxRequests
    /\ handled' = handled + 1
    /\ cookie \notin sessions
    /\ response' = [status |-> 303, location |-> "/login"]
    /\ UNCHANGED <<data_store, data_file, questions_store, questions_file, sessions,
                   GEMINI_API_KEY, gemini_calls, migVars, loopVars>>

\* lines 325-328
AddQuestionOK(cookie, question, p) ==
    /\ handled < MaxRequests
    /\ cookie \in sessions
    /\ questions_store' = Put(questions_store, p, Append(Get(questions_store, p, <<>>), question))
    /\ questions_file' = JsonFile(questions_store')
    /\ response' = [status |-> 303, location |-> "/admin?p="]
    /\ handled' = handled + 1
    /\ UNCHANGED <<data_store, data_file, sessions, GEMINI_API_KEY, gemini_calls, migVars, loopVars>>

add_question ==
    \E cookie \in Cookies :
        \/ AddQuestionRefused(cookie)
        \/ \E question \in QuestionTexts, p \in Presentations : AddQuestionOK(cookie, question, p)

----------------------------------------------------------------------------
(* The server *)

\* what the process finds when it starts: the key, DATA_FILE, QUESTIONS_FILE
BootConfigs ==
    {[key |-> TRUE, data |-> AbsentFile, questions |-> AbsentFile],
     [key |-> TRUE, data |-> JsonFile([categories |-> (CatA :> <<AnsX>>)]),
      questions |-> ListFile(<<Q1>>)],
     [key |-> TRUE, data |-> JsonFile([presentations |-> [p1 |-> EmptyDict]]),
      questions |-> JsonFile([p1 |-> <<Q1>>])],
     [key |-> FALSE, data |-> CorruptFile, questions |-> CorruptFile]}

NoTask == 0

\* a coroutine slot: no request yet
IdleTask ==
    [pc |-> "idle", p |-> "", question |-> <<>>, answer |-> <<>>,
     category |-> <<>>, is_new |-> FALSE, status |-> 0]

\* the event-loop variables, parked while whole handlers are the steps
LoopParked ==
    /\ tasks = <<>>
    /\ running = NoTask

MigParked ==
    /\ doc = AbsentFile
    /\ loaded = EmptyLedger
    /\ passes = 0

\* lines 136-138: the stores are loaded when the application starts
Init ==
    \E boot \in BootConfigs :
        /\ GEMINI_API_KEY = boot.key
        /\ data_file = boot.data
        /\ data_store = load_data(data_file)
        /\ questions_file = boot.questions
        /\ questions_store = load_questions(questions_file)
        /\ sessions = {}
        /\ response = [status |-> 0]
        /\ gemini_calls = 0
        /\ handled = 0
        /\ MigParked
        /\ LoopParked

Next ==
    \/ categorize_answer
    \/ add_question
    \/ \E password_ok \in BOOLEAN, session_id \in SessionIds : login(password_ok, session_id)
    \/ \E cookie \in Cookies : logout(cookie)

Spec == Init /\ [][Next]_vars

----------------------------------------------------------------------------
(* Claims about the server, checked under Spec *)

Questions == {General, Q1}
StoredAnswers == {AnsX, AnsY}

\* how many times answer a is stored in scope (p, q) of ledger `store`
Occurrences(store, p, q, a) ==
    LET m == get_categories(store, p, q)
    IN  Cardinality({pos \in UNION {{<<c, i>> : i \in DOMAIN m[c]} : c \in DOMAIN m} :
                        m[pos[1]][pos[2]] = a})

\* the ledger a restart would read from the durable document
Durable == load_data(data_file)

\* a step of CategorizeOK on these inputs; the first three conjuncts follow from
\* CategorizeOK and are tested first, so that few inputs are tried in full per step
Categorized(p, question, answer, category_name, is_new) ==
    /\ response'.status = 200
    /\ response'.category = Strip(category_name)
    /\ response'.all_categories[response'.category]
         [Len(response'.all_categories[response'.category])] = Strip(answer)
    /\ CategorizeOK(p, question, answer, category_name, is_new)

\* a step of CategorizeClassifierFails on these inputs
ClassifierFailed(p, question, answer, failure) ==
    /\ response' = [status |-> 500, detail |-> failure]
    /\ CategorizeClassifierFails(p, question, answer, failure)

\* C1 as stated: when the classifier returns a name that, trimmed, is already a
\* key of the scope, the novelty flag returned is false whatever the hint, and
\* the scope's key set is unchanged.
C1_AuthoritativeNovelty ==
    [][\A p \in Presentations, question \in QuestionInputs, answer \in AnswerInputs,
          category_name \in CategoryNames, is_new \in BOOLEAN :
          (/\ Strip(category_name) \in DOMAIN get_categories(data_store, p, question_text(question))
           /\ Categorized(p, question, answer, category_name, is_new))
          => /\ response'.is_new = FALSE
             /\ DOMAIN get_categories(data_store', p, question_text(question))
                  = DOMAIN get_categories(data_store, p, question_text(question))]_vars

\* C2 as stated: a categorize call whose classification fails leaves the
\* in-memory ledger and the durable document as they were.
C2_ClassifierFailureIsolation ==
    [][\A p \in Presentations, question \in QuestionInputs, answer \in AnswerInputs,
          failure \in Failures :
          ClassifierFailed(p, question, answer, failure)
          => /\ data_store' = data_store
             /\ data_file' = data_file]_vars

\* C3 as stated: a categorize call with an empty or whitespace-only answer fails
\* with the validation error, the classifier is not invoked, and the ledger and
\* the durable document are unchanged.
C3_EmptyAnswerValidationError ==
    [][\A p \in Presentations, question \in QuestionInputs, answer \in AnswerInputs :
          (Strip(answer) = <<>> /\ Categorize(p, question, answer))
          => /\ response'.status = 400
             /\ gemini_calls' = gemini_calls
             /\ data_store' = data_store
             /\ data_file' = data_file]_vars

\* C3 as amended: such a call fails before the classifier is invoked and leaves
\* the ledger and the durable document unchanged; the failure is the validation
\* error (400) when GEMINI_API_KEY is set and the "key is not set" error (500)
\* when it is not.
C3_EmptyAnswerRejected ==
    [][\A p \in Presentations, question \in QuestionInputs, answer \in AnswerInputs :
          (Strip(answer) = <<>> /\ Categorize(p, question, answer))
          => /\ response' = IF GEMINI_API_KEY
                            THEN [status |-> 400, detail |-> "Answer cannot be empty."]
                            ELSE [status |-> 500, detail |-> "GEMINI_API_KEY is not set."]
             /\ gemini_calls' = gemini_calls
             /\ data_store' = data_store
             /\ data_file' = data_file]_vars

C3_Witness ==
    /\ response = [status |-> 400, detail |-> "Answer cannot be empty."]
    /\ handled = 1
    /\ gemini_calls = 0
    /\ "p1" \notin DOMAIN data_store["presentations"]
    /\ data_file = AbsentFile
    /\ GEMINI_API_KEY

\* list `old` is a prefix of list `new`
IsPrefix(old, new) == Len(old) <= Len(new) /\ SubSeq(new, 1, Len(old)) = old

\* C5: over any step every (presentation, question, category) stays and its
\* answer list keeps the earlier list as a prefix; a successful categorize
\* appends its trimmed answer at the end of the chosen category's list and
\* leaves every other list, of its scope and of every other scope, as it was.
C5_AppendOnly ==
    [][/\ \A p \in Presentations, q \in Questions :
            \A c \in DOMAIN get_categories(data_store, p, q) :
                /\ c \in DOMAIN get_categories(data_store', p, q)
                /\ IsPrefix(get_categories(data_store, p, q)[c],
                            get_categories(data_store', p, q)[c])
       /\ \A p \in Presentations, question \in QuestionInputs, answer \in AnswerInputs,
             category_name \in CategoryNames, is_new \in BOOLEAN :
             Categorized(p, question, answer, category_name, is_new)
             => LET old == get_categories(data_store, p, question_text(question))
                    new == get_categories(data_store', p, question_text(question))
                    c == Strip(category_name)
                IN  /\ new[c] = (IF c \in DOMAIN old THEN old[c] ELSE <<>>) \o <<Strip(answer)>>
                    /\ \A other \in DOMAIN new \ {c} :
                          other \in DOMAIN old /\ new[other] = old[other]
                    /\ \A sp \in Presentations, sq \in Questions :
                          <<sp, sq>> # <<p, question_text(question)>>
                          => get_categories(data_store', sp, sq) = get_categories(data_store, sp, sq)]_vars

C5_Witness ==
    /\ response.status = 200
    /\ response.category = CatB
    /\ get_categories(data_store, "default", General)
         = (CatA :> <<AnsX>>) @@ (CatB :> <<AnsX, AnsY>>)

\* C6: when the classifier returns a name that, trimmed, is not a key of the
\* scope, the call creates the key, returns novelty true whatever the hint,
\* leaves exactly the new trimmed answer in that category's list, and returns
\* the complete updated mapping of the scope.
C6_TrueNovelty ==
    [][\A p \in Presentations, question \in QuestionInputs, answer \in AnswerInputs,
          category_name \in CategoryNames, is_new \in BOOLEAN :
          (/\ Strip(category_name) \notin DOMAIN get_categories(data_store, p, question_text(question))
           /\ Categorized(p, question, answer, category_name, is_new))
          => LET new == get_categories(data_store', p, question_text(question))
             IN  /\ response'.is_new = TRUE
                 /\ response'.category = Strip(category_name)
                 /\ Strip(category_name) \in DOMAIN new
                 /\ new[Strip(category_name)] = <<Strip(answer)>>
                 /\ response'.all_categories = new]_vars

C6_Witness ==
    /\ response.status = 200
    /\ response.is_new = TRUE
    /\ response.category = CatB
    /\ response.all_categories = (CatA :> <<AnsX>>) @@ (CatB :> <<AnsY>>)
    /\ get_categories(data_store, "default", General) = response.all_categories

\* C10: a successful categorize on scope (p, q) leaves the mapping of every
\* other scope as it was, in memory and in the durable document, changes within
\* its scope only the chosen category's list, and leaves the Question Index as
\* it was in memory and on disk; add_question leaves the ledger and the durable
\* document as they were and changes, in the Question Index, only the list of
\* its presentation.
C10_ScopeIsolation ==
    [][/\ \A p \in Presentations, question \in QuestionInputs, answer \in AnswerInputs,
             category_name \in CategoryNames, is_new \in BOOLEAN :
             Categorized(p, question, answer, category_name, is_new)
             => /\ \A sp \in Presentations, sq \in Questions :
                      <<sp, sq>> # <<p, question_text(question)>>
                      => /\ get_categories(data_store', sp, sq) = get_categories(data_store, sp, sq)
                         /\ get_categories(Durable', sp, sq) = get_categories(Durable, sp, sq)
                /\ DOMAIN get_categories(data_store', p, question_text(question))
                     = DOMAIN get_categories(data_store, p, question_text(question))
                         \cup {Strip(category_name)}
                /\ \A c \in DOMAIN get_categories(data_store, p, question_text(question)) :
                      c # Strip(category_name)
                      => get_categories(data_store', p, question_text(question))[c]
                           = get_categories(data_store, p, question_text(question))[c]
                /\ questions_store' = questions_store
                /\ questions_file' = questions_file
       /\ \A cookie \in Cookies, question \in QuestionTexts, p \in Presentations :
             (AddQuestionOK(cookie, question, p) \/ AddQuestionRefused(cookie))
             => /\ data_store' = data_store
                /\ data_file' = data_file
                /\ \A sp \in DOMAIN questions_store :
                      sp # p => /\ sp \in DOMAIN questions_store'
                                /\ questions_store'[sp] = questions_store[sp]]_vars

C10_Witness ==
    /\ response.status = 200
    /\ response.all_categories = (CatB :> <<AnsY>>)
    /\ get_categories(data_store, "p1", Q1) = response.all_categories
    /\ get_categories(data_store, "default", General) = (CatA :> <<AnsX>>)
    /\ get_categories(Durable, "default", General) = (CatA :> <<AnsX>>)

----------------------------------------------------------------------------
(* Concurrent /categorize requests on the event loop: categorize_answer,   *)
(* statement by statement, one coroutine per request.  A coroutine that    *)
(* holds the loop keeps it until it returns or reaches an await.           *)

TaskIds == 1..MaxTasks

LoopQuestions == {<<>>, <<"Q1", WS>>}
LoopAnswers == {<<WS>>, AnsX, <<WS, "y", WS>>}

\* every statement hands the loop over, as in a handler run on worker threads
Yields_EveryStatement(pc) == TRUE

\* lines 244-282 hold no await (requests.post on line 182 blocks the loop):
\* the coroutine gives the loop back at no statement before it returns
Yields(pc) == FALSE

Scheduled(t) == running \in {NoTask, t}

\* coroutine t moves on to position pc
Step(t, pc, fields) ==
    /\ tasks' = [tasks EXCEPT ![t] = [f \in DOMAIN tasks[t] |->
                    IF f = "pc" THEN pc
                    ELSE IF f \in DOMAIN fields THEN fields[f] ELSE tasks[t][f]]]
    /\ running' = IF pc = "done" \/ Yields(pc) THEN NoTask ELSE t

scope(t) == <<tasks[t].p, question_text(tasks[t].question)>>

categories_data(t) == data_store["presentations"][scope(t)[1]]["categories_by_question"][scope(t)[2]]

\* a request arrives and its coroutine is created (requests take the slots in order)
Receive(t, p, question, answer) ==
    /\ tasks[t].pc = "idle"
    /\ \A u \in TaskIds : u < t => tasks[u].pc # "idle"
    /\ tasks' = [tasks EXCEPT ![t] = [IdleTask EXCEPT !.pc = "start", !.p = p,
                                         !.question = question, !.answer = answer]]
    /\ UNCHANGED <<running, serverVars, migVars>>

\* lines 249-263: the key, the validation, the scope
Start(t) ==
    /\ tasks[t].pc = "start"
    /\ Scheduled(t)
    /\ IF ~GEMINI_API_KEY
       THEN Step(t, "done", [status |-> 500]) /\ UNCHANGED data_store
       ELSE IF Strip(tasks[t].answer) = <<>>
       THEN Step(t, "done", [status |-> 400]) /\ UNCHANGED data_store
       ELSE /\ Step(t, "classify", [answer |-> Strip(tasks[t].answer)])
            /\ data_store' = ResolveScope(data_store, scope(t)[1], scope(t)[2])
    /\ UNCHANGED <<data_file, questions_store, questions_file, sessions, GEMINI_API_KEY,
                   response, gemini_calls, handled, migVars>>

\* line 265 raising
ClassifyFails(t) ==
    /\ tasks[t].pc = "classify"
    /\ Scheduled(t)
    /\ Step(t, "done", [status |-> 500])
    /\ gemini_calls' = gemini_calls + 1
    /\ UNCHANGED <<data_store, data_file, questions_store, questions_file, sessions,
                   GEMINI_API_KEY, response, handled, migVars>>

\* lines 265-268
Classify(t, category_name, is_new) ==
    /\ tasks[t].pc = "classify"
    /\ Scheduled(t)
    /\ Step(t, "check", [category |-> Strip(category_name), is_new |-> is_new])
    /\ gemini_calls' = gemini_calls + 1
    /\ UNCHANGED <<data_store, data_file, questions_store, questions_file, sessions,
                   GEMINI_API_KEY, response, handled, migVars>>

\* line 270
Check(t) ==
    /\ tasks[t].pc = "check"
    /\ Scheduled(t)
    /\ IF tasks[t].category \notin DOMAIN categories_data(t)
       THEN Step(t, "create", <<>>)
       ELSE Step(t, "append", <<>>)
    /\ UNCHANGED <<serverVars, migVars>>

\* lines 271-272
Create(t) ==
    /\ tasks[t].pc = "create"
    /\ Scheduled(t)
    /\ data_store' = WithScope(data_store, scope(t)[1], scope(t)[2],
                               Put(categories_data(t), tasks[t].category, <<>>))
    /\ Step(t, "append", [is_new |-> TRUE])
    /\ UNCHANGED <<data_file, questions_store, questions_file, sessions, GEMINI_API_KEY,
                   response, gemini_calls, handled, migVars>>

\* line 274
AppendAnswer(t) ==
    /\ tasks[t].pc = "append"
    /\ Scheduled(t)
    /\ data_store' = WithScope(data_store, scope(t)[1], scope(t)[2],
                               Put(categories_data(t), tasks[t].category,
                                   Append(categories_data(t)[tasks[t].category], tasks[t].answer)))
    /\ Step(t, "save", <<>>)
    /\ UNCHANGED <<data_file, questions_store, questions_file, sessions, GEMINI_API_KEY,
                   response, gemini_calls, handled, migVars>>

\* lines 275-282
Save(t) ==
    /\ tasks[t].pc = "save"
    /\ Scheduled(t)
    /\ data_file' = JsonFile(data_store)
    /\ Step(t, "done", [status |-> 200])
    /\ UNCHANGED <<data_store, questions_store, questions_file, sessions, GEMINI_API_KEY,
                   response, gemini_calls, handled, migVars>>

\* what the loop's process found when it started
LoopBoot == JsonFile([categories |-> (CatA :> <<AnsX>>)])

InitLoop ==
    /\ GEMINI_API_KEY = TRUE
    /\ data_file = LoopBoot
    /\ data_store = load_data(LoopBoot)
    /\ questions_file = AbsentFile
    /\ questions_store = load_questions(AbsentFile)
    /\ sessions = {}
    /\ response = [status |-> 0]
    /\ gemini_calls = 0
    /\ handled = 0
    /\ tasks = [t \in TaskIds |-> IdleTask]
    /\ running = NoTask
    /\ MigParked

NextLoop ==
    \E t \in TaskIds :
        \/ \E p \in Presentations, question \in LoopQuestions, answer \in LoopAnswers :
              Receive(t, p, question, answer)
        \/ Start(t)
        \/ ClassifyFails(t)
        \/ \E category_name \in CategoryNames, is_new \in BOOLEAN :
              Classify(t, category_name, is_new)
        \/ Check(t)
        \/ Create(t)
        \/ AppendAnswer(t)
        \/ Save(t)

SpecLoop == InitLoop /\ [][NextLoop]_vars

\* how many coroutines were answered 200 for answer a in scope (p, q)
Accepted(p, q, a) ==
    Cardinality({t \in TaskIds : /\ tasks[t].pc = "done"
                                /\ tasks[t].status = 200
                                /\ scope(t) = <<p, q>>
                                /\ tasks[t].answer = a})

AllDone == \A t \in TaskIds : tasks[t].pc = "done"

\* coroutine t has made its existence check and has not yet persisted
BetweenCheckAndPersist(t) == tasks[t].pc \in {"create", "append", "save"}

\* C4: in every interleaving of concurrent categorize requests, while one
\* request is between its existence check and its persist no other request
\* changes the ledger or the durable document, and once all requests have
\* completed every answer that was answered 200 is stored exactly once more
\* than before, in memory and in the durable document.
C4_SerializedNoLostUpdates ==
    /\ [](AllDone =>
            \A p \in Presentations, q \in Questions, a \in StoredAnswers :
                /\ Occurrences(data_store, p, q, a)
                     = Occurrences(load_data(LoopBoot), p, q, a) + Accepted(p, q, a)
                /\ Occurrences(Durable, p, q, a) = Occurrences(data_store, p, q, a))
    /\ [][\A t \in TaskIds :
            (BetweenCheckAndPersist(t) /\ <<data_store, data_file>>' # <<data_store, data_file>>)
            => \A u \in TaskIds \ {t} : tasks'[u] = tasks[u]]_vars

C4_LoopWitness ==
    /\ AllDone
    /\ tasks[1].status = 200
    /\ tasks[2].status = 200
    /\ scope(1) = scope(2)
    /\ tasks[1].category = CatB
    /\ tasks[2].category = CatB
    /\ tasks[1].is_new # tasks[2].is_new
    /\ Occurrences(data_store, scope(1)[1], scope(1)[2], AnsY) = 2

----------------------------------------------------------------------------
(* The migration harness: load_data applied to bounded documents, and      *)
(* applied again to what it returned (a restart after a save).             *)

CatMaps == {EmptyDict, CatA :> <<AnsX, AnsY>>, (CatA :> <<AnsY>>) @@ (CatB :> <<AnsX>>)}

Cbqs == UNION {[S -> CatMaps] : S \in SUBSET {General, Q1}}

PresRecords ==
    {c @@ l : c \in {EmptyDict} \cup {[categories_by_question |-> q] : q \in Cbqs},
              l \in {EmptyDict} \cup {[categories |-> m] : m \in CatMaps \cup {JsonNull}}}

PresMaps == UNION {[S -> PresRecords] : S \in SUBSET {"default", "p1"}}

Documents ==
    {t @@ l : t \in {EmptyDict} \cup {[presentations |-> ps] : ps \in PresMaps},
              l \in {EmptyDict} \cup {[categories |-> m] : m \in CatMaps}}

Files == {AbsentFile, CorruptFile} \cup {JsonFile(d) : d \in Documents}

\* the server's variables, parked while the harness runs
ServerParked ==
    /\ data_store = EmptyLedger
    /\ data_file = AbsentFile
    /\ questions_store = [default |-> <<>>]
    /\ questions_file = AbsentFile
    /\ sessions = {}
    /\ GEMINI_API_KEY = TRUE
    /\ response = [status |-> 0]
    /\ gemini_calls = 0
    /\ handled = 0

InitMig ==
    /\ doc \in Files
    /\ loaded = load_data(doc)
    /\ passes = 1
    /\ ServerParked
    /\ LoopParked

\* the process saves what it loaded and starts again: lines 104-107, then line 137
Reload ==
    /\ passes < MaxPasses
    /\ doc' = JsonFile(loaded)
    /\ loaded' = load_data(JsonFile(loaded))
    /\ passes' = passes + 1
    /\ UNCHANGED <<serverVars, loopVars>>

NextMig == Reload

SpecMig == InitMig /\ [][NextMig]_vars

----------------------------------------------------------------------------
(* Claims about the migration, checked under SpecMig *)

\* the target schema of load_data's docstring: presentations, "default" among
\* them, each presentation holding categories_by_question and nothing else
CurrentShape(d) ==
    /\ DOMAIN d = {"presentations"}
    /\ "default" \in DOMAIN d["presentations"]
    /\ \A p \in DOMAIN d["presentations"] :
          DOMAIN d["presentations"][p] = {"categories_by_question"}

\* C7: load_data leaves a document of the current shape as it is, and
\* load_data applied to what load_data returned returns it unchanged.
C7_IdempotentMigration ==
    /\ (doc.kind = "json" /\ CurrentShape(doc.json)) => loaded = doc.json
    /\ passes >= 2 => loaded = doc.json

C7_Witness ==
    /\ passes = 2
    /\ CurrentShape(doc.json)
    /\ "p1" \in DOMAIN doc.json["presentations"]
    /\ General \in DOMAIN doc.json["presentations"]["default"]["categories_by_question"]
    /\ doc.json["presentations"]["default"]["categories_by_question"][General] # EmptyDict
    /\ loaded = doc.json

\* a legacy document: no presentations container, a flat mapping under "categories"
IsLegacy(f) ==
    /\ f.kind = "json"
    /\ "presentations" \notin DOMAIN f.json
    /\ "categories" \in DOMAIN f.json

\* C8: a legacy document with the flat mapping M migrates to the document whose
\* only presentation is "default", whose only question is "General", and whose
\* mapping there is M, categories and answer lists as they were.
C8_LosslessLegacyUpgrade ==
    IsLegacy(doc) =>
        loaded = [presentations |-> [default |-> [categories_by_question |->
                     (General :> doc.json["categories"])]]]

C8_Witness ==
    /\ IsLegacy(doc)
    /\ DOMAIN doc.json["categories"] = {CatA, CatB}
    /\ loaded["presentations"]["default"]["categories_by_question"][General]
          = (CatA :> <<AnsY>>) @@ (CatB :> <<AnsX>>)

\* presentation p of document d carries a legacy flat mapping directly
CarriesLegacy(d, p) ==
    /\ "categories" \in DOMAIN d["presentations"][p]
    /\ IsDict(d["presentations"][p]["categories"])

HasGeneral(rec) ==
    /\ "categories_by_question" \in DOMAIN rec
    /\ General \in DOMAIN rec["categories_by_question"]

\* record `out` is record `in` with its legacy mapping moved under "General", first write wins
MovedFirstWriteWins(in, out) ==
    /\ "categories" \notin DOMAIN out
    /\ HasGeneral(out)
    /\ out["categories_by_question"][General] =
          IF HasGeneral(in) THEN in["categories_by_question"][General] ELSE in["categories"]
    /\ \A q \in DOMAIN out["categories_by_question"] \ {General} :
          /\ "categories_by_question" \in DOMAIN in
          /\ q \in DOMAIN in["categories_by_question"]
          /\ out["categories_by_question"][q] = in["categories_by_question"][q]

HasPresentations(f) == f.kind = "json" /\ "presentations" \in DOMAIN f.json

\* C9 as stated: every presentation record that carries a legacy flat mapping
\* has it moved under "General" (first write wins), and none carries it afterwards.
C9_EveryPresentationMoved ==
    HasPresentations(doc) =>
        \A p \in DOMAIN doc.json["presentations"] :
            CarriesLegacy(doc.json, p) =>
                MovedFirstWriteWins(doc.json["presentations"][p], loaded["presentations"][p])

\* C9 as amended: the move is done for presentation "default" only; every
\* other presentation record is returned exactly as it was read, legacy
\* mapping included.
C9_DefaultOnlyMoved ==
    HasPresentations(doc) =>
        /\ ("default" \in DOMAIN doc.json["presentations"] /\ CarriesLegacy(doc.json, "default"))
              => MovedFirstWriteWins(doc.json["presentations"]["default"],
                                     loaded["presentations"]["default"])
        /\ \A p \in DOMAIN doc.json["presentations"] \ {"default"} :
              loaded["presentations"][p] = doc.json["presentations"][p]

C9_Witness ==
    /\ passes = 1
    /\ HasPresentations(doc)
    /\ DOMAIN doc.json["presentations"] = {"default", "p1"}
    /\ CarriesLegacy(doc.json, "default")
    /\ HasGeneral(doc.json["presentations"]["default"])
    /\ doc.json["presentations"]["default"]["categories_by_question"][General]
          # doc.json["presentations"]["default"]["categories"]
    /\ CarriesLegacy(doc.json, "p1")
    /\ CarriesLegacy(loaded, "p1")
    /\ ~CarriesLegacy(loaded, "default")

====
